---- MODULE Spec2Model ----
(***************************************************************************)
(* A model of src/app.py, the Streamlit admin console.                     *)
(*                                                                         *)
(* Streamlit executes the script file from its first line to its last for  *)
(* every user action of a session (spec section 5: "request-per-user-      *)
(* action").  One action of this model is one such script run: the module  *)
(* level statements, main(), the sidebar and the page function that main() *)
(* dispatches to, with the one widget the user acted on.  The remote REST  *)
(* API, the embedding API and the vector index are outside the repository: *)
(* what they answer is an input of the run, drawn from small sets.         *)
(*                                                                         *)
(* Python values that may have more than one type are tagged records:      *)
(* None, Dict(f), List(s), Bool(b), Str(s).                                *)
(***************************************************************************)
EXTENDS Integers, Sequences, FiniteSets, TLC

\* ------------------------------------------------------------ bounds
\* Bounds of the model (not program constants).
MaxSections == 2      \* sections in one new_quiz draft
MaxSubsections == 2   \* subsections in one new_quiz draft, all sections together
MaxQuestions == 2     \* questions in one new_quiz draft, all subsections together
MaxShared == 1        \* sections, subsections, questions of a draft where two sessions run

\* ------------------------------------------------------------ Python values
None == [kind |-> "None"]
Dict(f) == [kind |-> "dict", d |-> f]
List(s) == [kind |-> "list", l |-> s]
Bool(b) == [kind |-> "bool", b |-> b]
Str(s) == [kind |-> "str", s |-> s]
EmptyDict == Dict([k \in {} |-> None])
NotJson == [kind |-> "notjson"]

\* bool(v): Python's truth value of v.
Truthy(v) ==
  CASE v.kind = "None" -> FALSE
    [] v.kind = "dict" -> DOMAIN v.d # {}
    [] v.kind = "list" -> Len(v.l) > 0
    [] v.kind = "bool" -> v.b
    [] v.kind = "str" -> v.s # ""
    [] OTHER -> TRUE

\* v.get(k, dflt) of a dict v.
Get(v, k, dflt) == IF k \in DOMAIN v.d THEN v.d[k] ELSE dflt

\* bool(v.get(k)) for a flag of a JSON object (a missing key gives None).
Flag(v, k) == IF k \in DOMAIN v.d THEN v.d[k] ELSE FALSE

\* ------------------------------------------------------------ st.session_state
\* A session state is a function from the keys it holds to their values.
NoKeys == [k \in {} |-> None]
Has(st, k) == k \in DOMAIN st
Put(st, k, v) == [x \in (DOMAIN st) \cup {k} |-> IF x = k THEN v ELSE st[x]]
Pop(st, k) == [x \in (DOMAIN st) \ {k} |-> st[x]]
StGet(st, k, dflt) == IF k \in DOMAIN st THEN st[k] ELSE dflt

\* The Authorization header the wrappers build: f"Bearer {st.session_state.get('auth_token', '')}".
Bearer(st) == StGet(st, "auth_token", "")
\* authenticate and analyze_skin_condition send no Authorization header.
NoAuthHeader == "(no header)"

\* ------------------------------------------------------------ HTTP responses
\* What one requests.get/post/put/delete call ends in: a transport exception
\* (requests.exceptions.RequestException), or a response with a status and a body.
Exc == [exc |-> TRUE, status |-> 0, body |-> NotJson]
Http(status, body) == [exc |-> FALSE, status |-> status, body |-> body]
E500json == Http(500, Dict([message |-> "server error"]))
E500html == Http(500, NotJson)
\* The failures tried on the wrappers that use handle_api_response, where the
\* body of an error response matters, and on the others.
Failures == {Exc, E500json, E500html}
PlainFailures == {Exc, E500json}
Failed(r) == r.exc \/ r.status # 200

\* What a wrapper call gives back to the page: the value it returns, whether an
\* exception left it instead, the st.error messages it showed and the HTTP
\* requests it issued.
Res(ret, raised, errors, requests) ==
  [ret |-> ret, raised |-> raised, errors |-> errors, requests |-> requests]

\* handle_api_response(response).  On an HTTPError the handler formats
\* response.json().get('message', ...): a body that is not JSON raises there,
\* inside the except clause, and the exception leaves the function.
handle_api_response(r) ==
  IF r.status >= 400
  THEN IF r.body = NotJson THEN Res(None, TRUE, 0, 0) ELSE Res(None, FALSE, 1, 0)
  ELSE IF r.body = NotJson THEN Res(None, TRUE, 0, 0) ELSE Res(r.body, FALSE, 0, 0)

\* The wrappers built on handle_api_response share one shape (create_quiz,
\* delete_quiz, upload_puzzle, list_estheticians, approve_esthetician): the
\* request and the handling sit in one try block whose except clause shows one
\* st.error and falls to the failure value.  okKey names the field returned on
\* success (okConst is returned when okKey is ""), fail is the failure value.
\* In the else branch one st.error is shown either way: by the branch itself, or,
\* where the branch reads result.get('message', ...) of a result that is None, by
\* the except clause that catches the AttributeError.
HandledWrapper(r, okKey, okDflt, okConst, fail) ==
  IF r.exc THEN Res(fail, FALSE, 1, 1)
  ELSE LET h == handle_api_response(r) IN
    IF h.raised THEN Res(fail, FALSE, h.errors + 1, 1)
    ELSE IF Truthy(h.ret) /\ Flag(h.ret, "success")
         THEN Res(IF okKey = "" THEN okConst ELSE Get(h.ret, okKey, okDflt), FALSE, h.errors, 1)
         ELSE Res(fail, FALSE, h.errors + 1, 1)

create_quiz(r) == HandledWrapper(r, "quiz", None, None, None)
delete_quiz(r) == HandledWrapper(r, "", None, Bool(TRUE), Bool(FALSE))
upload_puzzle(r) == HandledWrapper(r, "puzzle", None, None, None)
list_estheticians(r) == HandledWrapper(r, "estheticians", List(<<>>), None, List(<<>>))
approve_esthetician(r) == HandledWrapper(r, "", None, Str("true"), Str("false"))

\* get_all_quizzes: a status other than 200 is logged only.
get_all_quizzes(r) ==
  IF r.exc THEN Res(List(<<>>), FALSE, 1, 1)
  ELSE IF r.status = 200
       THEN IF r.body = NotJson THEN Res(List(<<>>), FALSE, 1, 1)
            ELSE Res(Get(Get(r.body, "quizzes", EmptyDict), "items", List(<<>>)), FALSE, 0, 1)
       ELSE Res(List(<<>>), FALSE, 0, 1)

\* The first definition of get_quiz_details (lines 173-191).
get_quiz_details_first(r) ==
  IF r.exc THEN Res(EmptyDict, FALSE, 1, 1)
  ELSE IF r.status = 200
       THEN IF r.body = NotJson THEN Res(EmptyDict, FALSE, 1, 1)
            ELSE Res(Get(r.body, "quiz", EmptyDict), FALSE, 0, 1)
       ELSE Res(EmptyDict, FALSE, 1, 1)

\* The second definition of get_quiz_details (lines 427-436): no try block, and
\* None where the first gave {}.  The error message reads response.text, not
\* response.json(), so it is shown whatever the body.
get_quiz_details_second(r) ==
  IF r.exc THEN Res(None, TRUE, 0, 1)
  ELSE IF r.status = 200 /\ r.body = NotJson THEN Res(None, TRUE, 0, 1)
  ELSE IF r.status = 200 /\ Flag(r.body, "success")
       THEN Res(Get(r.body, "quiz", EmptyDict), FALSE, 0, 1)
       ELSE Res(None, FALSE, 1, 1)

\* The name get_quiz_details as the pages see it: a module binds a name to its
\* last def statement, and every page runs after both were executed.
get_quiz_details(r) == get_quiz_details_second(r)

update_quiz(r) ==
  IF r.exc THEN Res(None, FALSE, 1, 1)
  ELSE IF r.status = 200
       THEN IF r.body = NotJson THEN Res(None, FALSE, 1, 1) ELSE Res(r.body, FALSE, 0, 1)
       ELSE Res(None, FALSE, 1, 1)

\* analyze_skin_condition: one of the two requests.post calls, by image_file;
\* no try block and no st.error.
analyze_skin_condition(r, hasImage) ==
  IF r.exc THEN Res(None, TRUE, 0, 1)
  ELSE IF r.status = 200
       THEN IF r.body = NotJson THEN Res(None, TRUE, 0, 1) ELSE Res(r.body, FALSE, 0, 1)
       ELSE Res(None, FALSE, 0, 1)

\* get_quiz_recommendations: no try block; a failure is printed to stdout.
get_quiz_recommendations(r) ==
  IF r.exc THEN Res(None, TRUE, 0, 1)
  ELSE IF r.status = 200
       THEN IF r.body = NotJson THEN Res(None, TRUE, 0, 1)
            ELSE Res(Get(r.body, "quiz_list", List(<<>>)), FALSE, 0, 1)
       ELSE Res(None, FALSE, 0, 1)

\* start_quiz: the except clause prints and the function ends without a return
\* statement, which gives None.
start_quiz(r) ==
  IF r.exc THEN Res(None, FALSE, 0, 1)
  ELSE IF r.status = 200
       THEN IF r.body = NotJson THEN Res(None, FALSE, 0, 1)
            ELSE Res(Get(r.body, "question_details", EmptyDict), FALSE, 0, 1)
       ELSE Res(None, FALSE, 1, 1)

\* fetch_next_question: no try block.
fetch_next_question(r) ==
  IF r.exc THEN Res(None, TRUE, 0, 1)
  ELSE IF r.status = 200
       THEN IF r.body = NotJson THEN Res(None, TRUE, 0, 1)
            ELSE Res(Get(r.body, "question_details", EmptyDict), FALSE, 0, 1)
       ELSE Res(None, FALSE, 1, 1)

\* submit_quiz: no try block.
submit_quiz(r) ==
  IF r.exc THEN Res(None, TRUE, 0, 1)
  ELSE IF r.status = 200
       THEN IF r.body = NotJson THEN Res(None, TRUE, 0, 1) ELSE Res(r.body, FALSE, 0, 1)
       ELSE Res(None, FALSE, 1, 1)

\* authenticate with the request issued again after a failure.
authenticate_retry(r) ==
  IF r.exc \/ r.status >= 400 \/ r.body = NotJson THEN Res(None, FALSE, 1, 2)
  ELSE Res(r.body, FALSE, 0, 1)

\* authenticate: raise_for_status() and response.json() sit in the try block; an
\* HTTPError and a JSON decoding error are RequestExceptions.
authenticate(r) ==
  IF r.exc THEN Res(None, FALSE, 1, 1)
  ELSE IF r.status >= 400 THEN Res(None, FALSE, 1, 1)
  ELSE IF r.body = NotJson THEN Res(None, FALSE, 1, 1)
  ELSE Res(r.body, FALSE, 0, 1)

\* ------------------------------------------------------------ embedding and similarity
\* Question texts the user may type.  The second holds a line break.
Texts == {"dry skin", "oily\nskin"}
\* text.replace("\n", " ")
Normalise(t) == IF t = "oily\nskin" THEN "oily skin" ELSE t
Vec(t) == [kind |-> "vec", of |-> t]
Num(n) == [kind |-> "num", n |-> n]

\* The threshold of check_similarity, 0.6, in hundredths (scores are hundredths).
Threshold == 60

\* A memo table made once and kept by every later run.
lru_cache_kept(table) == table

\* The object the decorator of line 103 makes: a memo table of get_embedding's
\* results by argument.  The statement is a module level statement of the
\* script, so it is executed again by every run, and the table a run starts
\* with is empty.  (maxsize=1024 is never reached by one run.)
lru_cache(table) == NoKeys

\* get_embedding(text) on the memo table: a stored result is returned without
\* running the body; otherwise the body runs, and what it returns is stored,
\* None included (the except clause returns it).  by names the session whose
\* run stored the entry.
get_embedding(table, text, apiFails, s) ==
  IF text \in DOMAIN table
  THEN [ret |-> table[text].val, from |-> table[text].by, errors |-> 0, calls |-> 0, table |-> table]
  ELSE LET val == IF apiFails THEN None ELSE Vec(Normalise(text)) IN
       [ret |-> val, from |-> "api", errors |-> IF apiFails THEN 1 ELSE 0, calls |-> 1,
        table |-> Put(table, text, [val |-> val, by |-> s])]

\* What the vector index holds near a query vector, best first: the questions
\* stored in the metadata (texts of existing questions, none empty) and their scores.
Match(q, score) == [question |-> q, score |-> score]
Neighbourhoods ==
  { <<>>, <<Match("existing one", 59)>>, <<Match("existing one", 60)>>,
    <<Match("existing one", 61)>>, <<Match("existing two", 95), Match("existing one", 61)>>,
    <<Match("existing two", 60), Match("existing one", 59)>> }

\* index.query(vector=..., top_k=k): the k best matches.
TopK(near, k) == SubSeq(near, 1, IF Len(near) < k THEN Len(near) ELSE k)

\* check_similarity with >= in place of > in line 122.
check_similarity_ge(embedding, has, near, queryFails) ==
  IF ~has THEN [q |-> None, score |-> None, queries |-> 0, topk |-> 0, raised |-> FALSE]
  ELSE IF queryFails \/ embedding = None
       THEN [q |-> None, score |-> None, queries |-> 1, topk |-> 1, raised |-> FALSE]
       ELSE LET matches == TopK(near, 1) IN
            IF Len(matches) > 0 /\ matches[1].score >= Threshold
            THEN [q |-> Str(matches[1].question), score |-> Num(matches[1].score),
                  queries |-> 1, topk |-> 1, raised |-> FALSE]
            ELSE [q |-> None, score |-> None, queries |-> 1, topk |-> 1, raised |-> FALSE]

\* check_similarity(embedding): has says whether 'index' is in globals(); the
\* query raises when the service fails or the vector is None.  queries counts
\* the calls of index.query, topk is the top_k of the call.
check_similarity(embedding, has, near, queryFails) ==
  IF ~has THEN [q |-> None, score |-> None, queries |-> 0, topk |-> 0, raised |-> FALSE]
  ELSE IF queryFails \/ embedding = None
       THEN [q |-> None, score |-> None, queries |-> 1, topk |-> 1, raised |-> FALSE]
       ELSE LET matches == TopK(near, 1) IN
            IF Len(matches) > 0 /\ matches[1].score > Threshold
            THEN [q |-> Str(matches[1].question), score |-> Num(matches[1].score),
                  queries |-> 1, topk |-> 1, raised |-> FALSE]
            ELSE [q |-> None, score |-> None, queries |-> 1, topk |-> 1, raised |-> FALSE]

\* ------------------------------------------------------------ state
Sessions == {"u1", "u2"}

VARIABLES
  ss,      \* ss[s]: st.session_state of session s
  cache,   \* the memo table of get_embedding as the last run left it
  run,     \* what the last script run did (a record built by Ran)
  screen,  \* screen[s]: the page the last run of session s rendered ("(none)" before the first)
  answered \* answered[s]: the questions of its quiz session s has sent an answer for (history)

vars == <<ss, cache, run, screen, answered>>

\* One wrapper call of a run: the function, the response its request got, what
\* the call gave back, the Authorization header and the JSON body it sent.
Call(fn, r, res, bearer, payload) ==
  [fn |-> fn, resp |-> r, ret |-> res.ret, raised |-> res.raised, errors |-> res.errors,
   requests |-> res.requests, bearer |-> bearer, payload |-> payload]

\* What a page function leaves: the session state, the wrapper calls it made,
\* the st.error messages shown (its own and the wrappers'), whether an exception
\* ended it, and the record of a pressed Add Question button (None otherwise).
Out(st, calls, errors, raised, add) ==
  [st |-> st, calls |-> calls, errors |-> errors, raised |-> raised, add |-> add]

\* The inputs of a run that a page may read; an action sets the ones of its page.
DefaultIn ==
  [titleEdit |-> FALSE, title |-> "", secName |-> "", subName |-> "",
   qSec |-> 0, qSub |-> 0, qText |-> "",
   embFails |-> FALSE, hasIndex |-> TRUE, near |-> <<>>, queryFails |-> FALSE,
   resps |-> <<>>, hasText |-> FALSE, hasImage |-> FALSE, startIdx |-> 0,
   qi |-> 0, qj |-> 0, details |-> <<>>, update |-> Exc, who |-> "u1", table |-> NoKeys]

\* ------------------------------------------------------------ login, menu, admin page
\* show_login_page without the test of the success flag (line 848).
show_login_page_unflagged(st, press, in) ==
  IF press # "login" THEN Out(st, <<>>, 0, FALSE, None)
  ELSE LET res == authenticate(in.resps[1])
           c == Call("authenticate", in.resps[1], res, NoAuthHeader, None)
           auth == res.ret
       IN IF Truthy(auth)
          THEN LET st1 == Put(st, "auth_token", Get(auth, "access_token", ""))
                   st2 == Put(st1, "user_id", Get(auth, "user_id", ""))
                   role == Get(auth, "role", "")
               IN Out(Put(st2, "page", IF role = "admin" THEN "admin" ELSE "chatroom"),
                      <<c>>, res.errors, FALSE, None)
          ELSE Out(st, <<c>>, res.errors + 1, FALSE, None)

\* show_login_page
show_login_page(st, press, in) ==
  IF press # "login" THEN Out(st, <<>>, 0, FALSE, None)
  ELSE LET res == authenticate(in.resps[1])
           c == Call("authenticate", in.resps[1], res, NoAuthHeader, None)
           auth == res.ret
       IN IF Truthy(auth)
          THEN IF Flag(auth, "success")
               THEN LET st1 == Put(st, "auth_token", Get(auth, "access_token", ""))
                        st2 == Put(st1, "user_id", Get(auth, "user_id", ""))
                        role == Get(auth, "role", "")
                    IN Out(Put(st2, "page", IF role = "admin" THEN "admin" ELSE "chatroom"),
                           <<c>>, res.errors, FALSE, None)
               ELSE Out(st, <<c>>, res.errors + 1, FALSE, None)
          ELSE Out(st, <<c>>, res.errors + 1, FALSE, None)

\* A logout without st.session_state.clear().
Logout_keep(st) == Put(st, "page", "login")

\* st.session_state.clear(); st.session_state["page"] = "login"
Logout(st) == Put(NoKeys, "page", "login")

\* show_navigation_menu
show_navigation_menu(st, press) ==
  CASE press = "nav_admin_page" -> Put(st, "page", "admin")
    [] press = "nav_esthetician_management" -> Put(st, "page", "esthetician_management")
    [] press = "nav_quiz_management" -> Put(st, "page", "quiz_management")
    [] press = "nav_create_quiz" -> Put(st, "page", "create_quiz")
    [] press = "nav_chatroom" -> Put(st, "page", "chatroom")
    [] press = "nav_logout" -> Logout(st)
    [] OTHER -> st

\* show_admin_page
show_admin_page(st, press) ==
  CASE press = "admin_esthetician" -> Out(Put(st, "page", "esthetician_management"), <<>>, 0, FALSE, None)
    [] press = "admin_quiz" -> Out(Put(st, "page", "quiz_management"), <<>>, 0, FALSE, None)
    [] press = "admin_logout" -> Out(Logout(st), <<>>, 0, FALSE, None)
    [] OTHER -> Out(st, <<>>, 0, FALSE, None)

\* show_insights_page
show_insights_page(st, press) ==
  IF press = "insights_logout" THEN Out(Logout(st), <<>>, 0, FALSE, None)
  ELSE Out(st, <<>>, 0, FALSE, None)

\* ------------------------------------------------------------ create_quiz_page
EmptyDraft == [quiz_title |-> "", sections |-> <<>>]
Section(name) == [section_name |-> name, subsections |-> <<>>]
Subsection(name) == [subsection_name |-> name, questions |-> <<>>]

RECURSIVE CountSubsections(_)
CountSubsections(sections) ==
  IF sections = <<>> THEN 0
  ELSE Len(sections[1].subsections) + CountSubsections(Tail(sections))

RECURSIVE CountIn(_)
CountIn(subsections) ==
  IF subsections = <<>> THEN 0
  ELSE Len(subsections[1].questions) + CountIn(Tail(subsections))

RECURSIVE CountQuestions(_)
CountQuestions(sections) ==
  IF sections = <<>> THEN 0
  ELSE CountIn(sections[1].subsections) + CountQuestions(Tail(sections))

\* subsection["questions"].append(question_text) for the subsection at (i, j)
AppendQuestion(draft, i, j, text) ==
  [draft EXCEPT !.sections[i].subsections[j].questions = Append(@, text)]

\* Add Question without the test of line 714: the text is appended whatever
\* check_similarity returned.
AddQuestionPressed_unguarded(st, in) ==
  LET e == get_embedding(in.table, in.qText, in.embFails, in.who)
      sim == check_similarity(e.ret, in.hasIndex, in.near, in.queryFails)
  IN Out(IF in.qText = "" THEN st
         ELSE Put(st, "new_quiz", AppendQuestion(st["new_quiz"], in.qSec, in.qSub, in.qText)),
         <<>>, e.errors, FALSE,
         [kind |-> "add", text |-> in.qText, sec |-> in.qSec, sub |-> in.qSub, asked |-> in.qText # "",
          embedding |-> e.ret, embFrom |-> e.from, embCalls |-> e.calls,
          hasIndex |-> in.hasIndex, near |-> in.near, queryFails |-> in.queryFails,
          q |-> sim.q, score |-> sim.score, queries |-> sim.queries, topk |-> sim.topk,
          raised |-> sim.raised, appended |-> in.qText # "", table |-> e.table])

\* Lines 711-721: the Add Question button of the subsection at (i, j).
AddQuestionPressed(st, in) ==
  LET draft == st["new_quiz"]
      text == in.qText
  IN IF text = ""
     THEN Out(st, <<>>, 1, FALSE,
              [kind |-> "add", text |-> text, sec |-> in.qSec, sub |-> in.qSub, asked |-> FALSE,
               embedding |-> None, embFrom |-> "none", embCalls |-> 0,
               hasIndex |-> in.hasIndex, near |-> in.near, queryFails |-> in.queryFails,
               q |-> None, score |-> None, queries |-> 0, topk |-> 0, raised |-> FALSE,
               appended |-> FALSE, table |-> in.table])
     ELSE LET e == get_embedding(in.table, text, in.embFails, in.who)
              sim == check_similarity(e.ret, in.hasIndex, in.near, in.queryFails)
              similar == Truthy(sim.q)
          IN Out(IF similar THEN st
                 ELSE Put(st, "new_quiz", AppendQuestion(draft, in.qSec, in.qSub, text)),
                 <<>>, e.errors, FALSE,
                 [kind |-> "add", text |-> text, sec |-> in.qSec, sub |-> in.qSub, asked |-> TRUE,
                  embedding |-> e.ret, embFrom |-> e.from, embCalls |-> e.calls,
                  hasIndex |-> in.hasIndex, near |-> in.near, queryFails |-> in.queryFails,
                  q |-> sim.q, score |-> sim.score, queries |-> sim.queries, topk |-> sim.topk,
                  raised |-> sim.raised, appended |-> ~similar, table |-> e.table])

\* create_quiz_page
create_quiz_page(st, press, in) ==
  LET st1 == IF Has(st, "new_quiz") THEN st ELSE Put(st, "new_quiz", EmptyDraft)
      \* line 681: the title input gives the stored title back unless the user edited it
      title == IF in.titleEdit THEN in.title ELSE st1["new_quiz"].quiz_title
      st2 == Put(st1, "new_quiz", [st1["new_quiz"] EXCEPT !.quiz_title = title])
      draft == st2["new_quiz"]
  IN CASE press = "add_section" ->
            IF in.secName # ""
            THEN Out(Put(st2, "new_quiz", [draft EXCEPT !.sections = Append(@, Section(in.secName))]),
                     <<>>, 0, FALSE, None)
            ELSE Out(st2, <<>>, 1, FALSE, None)
       [] press = "add_subsection" ->
            IF in.subName # "" /\ Len(draft.sections) > 0
            THEN Out(Put(st2, "new_quiz",
                         [draft EXCEPT !.sections[Len(draft.sections)].subsections =
                                          Append(@, Subsection(in.subName))]),
                     <<>>, 0, FALSE, None)
            ELSE Out(st2, <<>>, 1, FALSE, None)
       [] press = "add_question" -> AddQuestionPressed(st2, in)
       [] press = "save_quiz" ->
            LET res == create_quiz(in.resps[1])
                c == Call("create_quiz", in.resps[1], res, Bearer(st2), draft)
            IN IF Truthy(res.ret)
               THEN Out(Pop(st2, "new_quiz"), <<c>>, res.errors, FALSE, None)
               ELSE Out(st2, <<c>>, res.errors + 1, FALSE, None)
       [] press = "create_back" -> Out(Put(st2, "page", "quiz_management"), <<>>, 0, FALSE, None)
       [] OTHER -> Out(st2, <<>>, 0, FALSE, None)

\* ------------------------------------------------------------ chatroom and quiz pages
\* Questions of a quiz a user takes (the server's data).
NumQuizQuestions == 2

QuizStub(id) == Dict([quiz_id |-> id, title |-> "Routine", section |-> "care", status |-> "not_started"])
QuestionDetails(id, i) ==
  Dict([question |-> Dict([question_id |-> i, question |-> "how often?", options |-> List(<<"daily", "never">>)]),
        quiz_id |-> id, current_question_index |-> i, total_question_count |-> NumQuizQuestions])

\* show_chatroom_page.  The Start Quiz buttons are made only inside the branch
\* of a pressed Analyze Skin button: in.startIdx is the quiz whose button is
\* pressed in the same run (0: none).  A run acts on one widget, so the runs of
\* this model have startIdx = 0: the run a press of Start Quiz starts finds
\* Analyze Skin not pressed and does not make the button.  The Logout branch
\* ends in line 523, which reads the local name quiz that only the loop of the
\* Analyze branch binds.
show_chatroom_page(st, press, in) ==
  CASE press = "analyze" ->
         IF ~(in.hasText \/ in.hasImage) THEN Out(st, <<>>, 1, FALSE, None)
         ELSE LET r1 == analyze_skin_condition(in.resps[1], in.hasImage)
                  c1 == Call("analyze_skin_condition", in.resps[1], r1, NoAuthHeader, None)
              IN IF r1.raised THEN Out(st, <<c1>>, 0, TRUE, None)
                 ELSE IF ~(Truthy(r1.ret) /\ Flag(r1.ret, "success")) THEN Out(st, <<c1>>, 1, FALSE, None)
                 ELSE LET detail == Get(r1.ret, "detail", EmptyDict)
                          st1 == Put(st, "skin_type", Get(detail, "skin_type", None))
                          st2 == Put(st1, "condition", Get(detail, "condition", None))
                          st3 == Put(st2, "skin_recommendations", Get(detail, "recommendations", List(<<>>)))
                          r2 == get_quiz_recommendations(in.resps[2])
                          c2 == Call("get_quiz_recommendations", in.resps[2], r2, Bearer(st3), None)
                      IN IF r2.raised THEN Out(st3, <<c1, c2>>, 0, TRUE, None)
                         ELSE LET st4 == Put(st3, "quiz_list", r2.ret) IN
                              IF Truthy(r2.ret) /\ in.startIdx >= 1 /\ in.startIdx <= Len(r2.ret.l)
                              THEN LET quiz == r2.ret.l[in.startIdx]
                                       st5 == Put(Put(st4, "quiz_id", Get(quiz, "quiz_id", None)), "page", "quiz")
                                       r3 == start_quiz(in.resps[3])
                                       c3 == Call("start_quiz", in.resps[3], r3, Bearer(st5), None)
                                   IN Out(Put(st5, "current_question", r3.ret), <<c1, c2, c3>>,
                                          r3.errors, FALSE, None)
                              ELSE Out(st4, <<c1, c2>>, 0, FALSE, None)
    [] press = "chat_insights" -> Out(Put(st, "page", "insights"), <<>>, 0, FALSE, None)
    [] press = "chat_logout" -> Out(Logout(st), <<>>, 0, TRUE, None)
    [] OTHER -> Out(st, <<>>, 0, FALSE, None)

\* show_quiz_page
show_quiz_page(st, press, in) ==
  IF ~Has(st, "current_question") THEN Out(st, <<>>, 1, FALSE, None)
  ELSE LET qd == st["current_question"] IN
    \* question_details["question"]: TypeError on None, KeyError on {}
    IF qd = None \/ ~("question" \in DOMAIN qd.d) THEN Out(st, <<>>, 0, TRUE, None)
    ELSE IF press # "submit_answer" THEN Out(st, <<>>, 0, FALSE, None)
    ELSE LET quiz_id == qd.d["quiz_id"]
             r1 == fetch_next_question(in.resps[1])
             c1 == Call("fetch_next_question", in.resps[1], r1, Bearer(st),
                        [quiz_id |-> quiz_id, question_id |-> qd.d["question"].d["question_id"]])
         IN IF r1.raised THEN Out(st, <<c1>>, 0, TRUE, None)
            ELSE IF ~Truthy(r1.ret) THEN Out(st, <<c1>>, r1.errors + 1, FALSE, None)
            ELSE LET st1 == Put(st, "current_question", r1.ret) IN
                 IF r1.ret.d["current_question_index"] + 1 >= r1.ret.d["total_question_count"]
                 THEN LET r2 == submit_quiz(in.resps[2])
                          c2 == Call("submit_quiz", in.resps[2], r2, Bearer(st1), [quiz_id |-> quiz_id])
                      IN IF r2.raised THEN Out(st1, <<c1, c2>>, 0, TRUE, None)
                         ELSE IF Truthy(r2.ret) /\ Flag(r2.ret, "success")
                              THEN Out(Put(st1, "page", "insights"), <<c1, c2>>, 0, FALSE, None)
                              ELSE Out(st1, <<c1, c2>>, r2.errors + 1, FALSE, None)
                 ELSE Out(st1, <<c1>>, 0, FALSE, None)

\* ------------------------------------------------------------ esthetician management
Esthetician(id, status) == Dict([_id |-> id, full_name |-> id, esthetician_status |-> status])

\* show_esthetician_management: in.qi is the esthetician (1, 2, ...) whose
\* Approve or Reject button is pressed.
show_esthetician_management(st, press, in) ==
  LET r1 == list_estheticians(in.resps[1])
      c1 == Call("list_estheticians", in.resps[1], r1, Bearer(st), None)
      list == r1.ret.l
      shown == press \in {"esth_approve", "esth_reject"} /\ in.qi >= 1 /\ in.qi <= Len(list)
               /\ Get(list[in.qi], "esthetician_status", "") # "approved"
  IN IF shown
     THEN LET r2 == approve_esthetician(in.resps[2])
              c2 == Call("approve_esthetician", in.resps[2], r2, Bearer(st),
                         [is_approved |-> IF press = "esth_approve" THEN "true" ELSE "false"])
          IN Out(st, <<c1, c2>>, r1.errors + r2.errors, FALSE, None)
     ELSE IF press = "esth_back" THEN Out(Put(st, "page", "admin"), <<c1>>, r1.errors, FALSE, None)
     ELSE Out(st, <<c1>>, r1.errors, FALSE, None)

\* ------------------------------------------------------------ quiz management
Question(id, text) == Dict([question_id |-> id, question |-> text, options |-> List(<<"yes", "no">>)])
Quiz(title, questions) == Dict([title |-> title, section |-> "care", questions |-> List(questions)])

\* list.pop(k) for a 0-based k
PopAt(seq, k) == SubSeq(seq, 1, k) \o SubSeq(seq, k + 2, Len(seq))

\* The loop over the questions of one quiz (lines 617-653), from the 0-based
\* index k of enumerate on.  qs is the list the loop runs over, which Confirm
\* Delete shortens while the loop runs; here says the pressed button is one of
\* this quiz, in.qj is the question index of a pressed question button; edited
\* is edited_questions so far.  A run holds at most one pressed button, so at
\* most one update_quiz call, whose response is in.update.
RECURSIVE QuestionLoop(_, _, _, _, _, _, _, _, _, _, _, _)
QuestionLoop(st, quiz_id, title, section, qs, k, here, press, in, edited, calls, errors) ==
  IF k >= Len(qs) THEN [st |-> st, edited |-> edited, calls |-> calls, errors |-> errors]
  ELSE LET question == qs[k + 1]
           mine == here /\ in.qj = k
           st1 == IF mine /\ press = "mgmt_delete"
                  THEN Put(st, "delete_confirm", [quiz_id |-> quiz_id, question_idx |-> k])
                  ELSE st
           pending == Has(st1, "delete_confirm") /\ st1["delete_confirm"].quiz_id = quiz_id
                      /\ st1["delete_confirm"].question_idx = k
           confirm == pending /\ mine /\ press = "mgmt_confirm"
           cancel == pending /\ mine /\ press = "mgmt_cancel"
           st2 == IF confirm \/ cancel THEN Pop(st1, "delete_confirm") ELSE st1
           qs2 == IF confirm THEN PopAt(qs, k) ELSE qs
           res == update_quiz(in.update)
           c == Call("update_quiz", in.update, res, Bearer(st2),
                     [quiz_id |-> quiz_id, title |-> title, section |-> section, questions |-> qs2])
           \* line 648 reads the question index of a pending confirmation, whatever its quiz
           kept == ~(Has(st2, "delete_confirm") /\ st2["delete_confirm"].question_idx = k)
       IN QuestionLoop(st2, quiz_id, title, section, qs2, k + 1, here, press, in,
                       IF kept THEN Append(edited, question) ELSE edited,
                       IF confirm THEN Append(calls, c) ELSE calls,
                       IF confirm THEN errors + res.errors ELSE errors)

\* The loop over the listed quizzes (lines 604-664), from quiz i on; in.qi is the
\* quiz (1, 2, ...) a pressed button belongs to, in.details[i] the response to
\* the details request of quiz i.
\* Lines 655-661 of one quiz: the Save button, whose payload is the edited
\* questions ql.edited the question loop left.
SaveButton(ql, quiz_id, title, section, save, in) ==
  LET sres == update_quiz(in.update)
      sc == Call("update_quiz", in.update, sres, Bearer(ql.st),
                 [quiz_id |-> quiz_id, title |-> title, section |-> section, questions |-> ql.edited])
  IN [st |-> ql.st, calls |-> IF save THEN Append(ql.calls, sc) ELSE ql.calls,
      errors |-> IF save THEN ql.errors + sres.errors ELSE ql.errors]

RECURSIVE QuizLoop(_, _, _, _, _, _, _)
RECURSIVE QuizLoopFrom(_, _, _, _, _)
QuizLoopFrom(q, quizzes, i, press, in) == QuizLoop(q.st, quizzes, i, press, in, q.calls, q.errors)

QuizLoop(st, quizzes, i, press, in, calls, errors) ==
  IF i > Len(quizzes) THEN [st |-> st, calls |-> calls, errors |-> errors, raised |-> FALSE]
  ELSE LET quiz == quizzes[i] IN
    IF ~("_id" \in DOMAIN quiz.d) THEN QuizLoop(st, quizzes, i + 1, press, in, calls, errors)
    ELSE LET quiz_id == quiz.d["_id"]
             res == get_quiz_details(in.details[i])
             c == Call("get_quiz_details", in.details[i], res, Bearer(st), [quiz_id |-> quiz_id])
         IN IF res.raised
            THEN [st |-> st, calls |-> Append(calls, c), errors |-> errors, raised |-> TRUE]
            \* quiz_details.get("title", "N/A") on None: AttributeError
            ELSE IF res.ret = None
            THEN [st |-> st, calls |-> Append(calls, c), errors |-> errors + res.errors, raised |-> TRUE]
            ELSE LET title == Get(res.ret, "title", "N/A")
                     section == Get(res.ret, "section", "N/A")
                     questions == Get(res.ret, "questions", List(<<>>)).l
                 IN QuizLoopFrom(
                      SaveButton(QuestionLoop(st, quiz_id, title, section, questions, 0, in.qi = i,
                                              press, in, <<>>, Append(calls, c), errors + res.errors),
                                 quiz_id, title, section, in.qi = i /\ press = "mgmt_save", in),
                      quizzes, i + 1, press, in)

\* show_quiz_management
\* Lines 665-667 after the loop: the Back button, reached unless the loop raised.
AfterQuizLoop(loop, press) ==
  IF loop.raised THEN Out(loop.st, loop.calls, loop.errors, TRUE, None)
  ELSE IF press = "mgmt_back" THEN Out(Put(loop.st, "page", "admin"), loop.calls, loop.errors, FALSE, None)
  ELSE Out(loop.st, loop.calls, loop.errors, FALSE, None)

show_quiz_management(st, press, in) ==
  LET r1 == get_all_quizzes(in.resps[1])
      c1 == Call("get_all_quizzes", in.resps[1], r1, Bearer(st), None)
  IN AfterQuizLoop(QuizLoop(st, r1.ret.l, 1, press, in, <<c1>>, r1.errors), press)

\* ------------------------------------------------------------ main
\* main
main(st, press, in) ==
  LET st0 == IF Has(st, "page") THEN st ELSE Put(st, "page", "login")
      st1 == show_navigation_menu(st0, press)
      page == st1["page"]
  IN CASE page = "login" -> show_login_page(st1, press, in)
       [] page = "admin" -> show_admin_page(st1, press)
       [] page = "quiz_management" -> show_quiz_management(st1, press, in)
       [] page = "create_quiz" -> create_quiz_page(st1, press, in)
       [] page = "esthetician_management" -> show_esthetician_management(st1, press, in)
       [] page = "chatroom" -> show_chatroom_page(st1, press, in)
       [] page = "quiz" -> show_quiz_page(st1, press, in)
       [] page = "insights" -> show_insights_page(st1, press)
       [] OTHER -> Out(st1, <<>>, 0, FALSE, None)

\* ------------------------------------------------------------ what the services answer
LoginOk(role) ==
  Http(200, Dict([success |-> TRUE, access_token |-> "token", user_id |-> "user", role |-> role]))
Refused == Http(200, Dict([success |-> FALSE, message |-> "refused"]))
Done == Http(200, Dict([success |-> TRUE]))
LoginResponses == PlainFailures \cup {LoginOk("admin"), LoginOk("user"), Refused}
CreateResponses ==
  Failures \cup {Http(200, Dict([success |-> TRUE, quiz |-> Dict([_id |-> "new"])])), Done, Refused}
UpdateResponses == {Done, Exc, E500json}
SubmitResponses == PlainFailures \cup {Done, Refused}
ApproveResponses == {Done, Refused, Exc, E500json}

\* The quizzes of the server: their ids and what the details request gives.
QuizOf(id) ==
  IF id = "quizA"
  THEN Quiz("A", <<Question("a0", "first"), Question("a1", "second"), Question("a2", "third")>>)
  ELSE Quiz("B", <<Question("b0", "first"), Question("b1", "second")>>)
QuizLists ==
  { <<>>, <<Dict([_id |-> "quizA"])>>, <<Dict([_id |-> "quizA"]), Dict([_id |-> "quizB"])>>,
    <<Dict([name |-> "no id"]), Dict([_id |-> "quizB"])>> }
ListOk(items) == Http(200, Dict([quizzes |-> Dict([items |-> List(items)])]))
ListResponses == PlainFailures \cup {ListOk(items) : items \in QuizLists}
DetailsOk(id) == Http(200, Dict([success |-> TRUE, quiz |-> QuizOf(id)]))
DetailsNoFlag(id) == Http(200, Dict([quiz |-> QuizOf(id)]))
DetailResponses(item) ==
  IF "_id" \in DOMAIN item.d
  THEN {DetailsOk(item.d["_id"]), DetailsNoFlag(item.d["_id"]), Exc, E500json}
  ELSE {Exc}
DetailSeqs(rl) ==
  LET items == get_all_quizzes(rl).ret.l
      all == UNION {DetailResponses(items[i]) : i \in 1..Len(items)}
      stops(r) == get_quiz_details(r).raised \/ get_quiz_details(r).ret = None
  IN {ds \in [1..Len(items) -> all] :
        \A i \in 1..Len(items) :
          /\ ds[i] \in DetailResponses(items[i])
          \* the loop ends at the first quiz whose details fail: the rest is not requested
          /\ (\E k \in 1..(i - 1) : "_id" \in DOMAIN items[k].d /\ stops(ds[k])) => ds[i] = Exc}

EsthLists == { <<>>, <<Esthetician("e1", "pending"), Esthetician("e2", "approved")>> }
EsthListResponses ==
  Failures \cup {Refused} \cup {Http(200, Dict([success |-> TRUE, estheticians |-> List(l)])) : l \in EsthLists}

AnalyzeOk ==
  Http(200, Dict([success |-> TRUE,
                  detail |-> Dict([skin_type |-> "oily", condition |-> "acne",
                                   recommendations |-> List(<<"cleanse">>)])]))
AnalyzeResponses == PlainFailures \cup {AnalyzeOk, Refused}
RecResponses ==
  PlainFailures \cup {Http(200, Dict([quiz_list |-> List(<<QuizStub("quizA")>>)])),
                 Http(200, Dict([quiz_list |-> List(<<>>)]))}
StartResponses ==
  PlainFailures \cup {Http(200, Dict([question_details |-> QuestionDetails("quizA", 0)])), Http(200, EmptyDict)}
FetchResponses ==
  PlainFailures \cup {Http(200, Dict([question_details |-> QuestionDetails("quizA", i)])) : i \in 0..(NumQuizQuestions - 1)}

\* The page main() dispatches to when no sidebar button is pressed.
PageOf(s) == IF Has(ss[s], "page") THEN ss[s]["page"] ELSE "login"

\* No run is under way and the record of the last one is dropped.
Idle ==
  [sess |-> "-", press |-> "(idle)", pre |-> NoKeys, calls |-> <<>>,
   errors |-> 0, raised |-> FALSE, add |-> None]

\* One script run of session s with the widget press acted on and the inputs in.
\* Runs are synchronous (spec section 5): one starts when none is under way.
\* The page main() dispatches to in a run: the one the session names once the
\* sidebar button pressed, if any, has acted.
Dispatched(st, press) ==
  show_navigation_menu(IF Has(st, "page") THEN st ELSE Put(st, "page", "login"), press)["page"]

\* The widgets of page are in the browser, and main() will render page again, so
\* that a press of one of them acts.  (A press of a widget the new run does not
\* render does what a run without a press does: Rerun.)
OnPage(s, page) == screen[s] = page /\ PageOf(s) = page

\* The questions answered once the wrapper calls of a run are made: start_quiz
\* begins a quiz, and fetch_next_question sends the answer to the question
\* whose id is in its payload (the server has it when the request succeeds).
Answered(old, calls) ==
  (IF \E i \in DOMAIN calls : calls[i].fn = "start_quiz" THEN {} ELSE old)
    \cup {calls[i].payload.question_id :
            i \in {j \in DOMAIN calls : calls[j].fn = "fetch_next_question" /\ ~Failed(calls[j].resp)}}

\* The state a run of session s leaves, out being what main() left and table the
\* memo table the run started with.
Ran(s, press, table, out) ==
  /\ ss' = [ss EXCEPT ![s] = out.st]
  /\ cache' = IF out.add = None THEN table ELSE out.add.table
  /\ screen' = [screen EXCEPT ![s] = Dispatched(ss[s], press)]
  /\ answered' = [answered EXCEPT ![s] = Answered(answered[s], out.calls)]
  /\ run' = [sess |-> s, press |-> press, pre |-> ss[s], calls |-> out.calls,
             errors |-> out.errors, raised |-> out.raised, add |-> out.add]

Script(s, press, in) ==
  /\ run = Idle
  /\ Ran(s, press, lru_cache(cache),
         main(ss[s], press, [in EXCEPT !.who = s, !.table = lru_cache(cache)]))

\* The run has ended: its page is on the screen and the next user action may come.
EndRun ==
  /\ run # Idle
  /\ run' = Idle
  /\ UNCHANGED <<ss, cache, screen, answered>>

Init ==
  /\ ss = [s \in Sessions |-> NoKeys]
  /\ cache = NoKeys
  /\ run = Idle
  /\ screen = [s \in Sessions |-> "(none)"]
  /\ answered = [s \in Sessions |-> {}]

\* ------------------------------------------------------------ actions: one script run each
\* The inputs a page reads when it is rendered, whatever widget is pressed.
MgmtInputs ==
  UNION {{[DefaultIn EXCEPT !.resps = <<rl>>, !.details = ds] : ds \in DetailSeqs(rl)} :
         rl \in ListResponses}
EsthInputs == {[DefaultIn EXCEPT !.resps = <<r>>] : r \in EsthListResponses}
RenderInputs(page) == IF page = "quiz_management" THEN MgmtInputs ELSE EsthInputs

DraftOf(s) == StGet(ss[s], "new_quiz", EmptyDraft)

\* The pages that issue requests whenever they are rendered.
ManagePages == {"quiz_management", "esthetician_management"}

\* A run with no widget pressed (the page is loaded, or a widget is pressed that
\* the run does not render), on a page that issues no request when rendered ...
Rerun(s) == PageOf(s) \notin ManagePages /\ Script(s, "(none)", DefaultIn)

\* ... and on a page that does.
RerunManage(s) ==
  /\ PageOf(s) \in ManagePages
  /\ \E in \in RenderInputs(PageOf(s)) : Script(s, "(none)", in)

\* A sidebar button; the page it names is rendered in the same run.
Navigate(s) ==
  /\ screen[s] # "(none)"
  /\ \E press \in {"nav_admin_page", "nav_create_quiz", "nav_chatroom"} : Script(s, press, DefaultIn)

NavigateManage(s) ==
  /\ screen[s] # "(none)"
  /\ \E press \in {"nav_esthetician_management", "nav_quiz_management"} :
       \E in \in RenderInputs(show_navigation_menu(NoKeys, press)["page"]) : Script(s, press, in)

NavLogout(s) == screen[s] # "(none)" /\ Script(s, "nav_logout", DefaultIn)

Login(s) ==
  /\ OnPage(s, "login")
  /\ \E r \in LoginResponses : Script(s, "login", [DefaultIn EXCEPT !.resps = <<r>>])

AdminMenu(s) ==
  /\ OnPage(s, "admin")
  /\ \E press \in {"admin_esthetician", "admin_quiz"} : Script(s, press, DefaultIn)

AdminLogout(s) == OnPage(s, "admin") /\ Script(s, "admin_logout", DefaultIn)

EditTitle(s) ==
  /\ OnPage(s, "create_quiz")
  /\ \E t \in {"Routine"} : Script(s, "edit_title", [DefaultIn EXCEPT !.titleEdit = TRUE, !.title = t])

AddSection(s) ==
  /\ OnPage(s, "create_quiz")
  /\ \E name \in {"", "Skin"} :
       /\ name # "" => Len(DraftOf(s).sections) < MaxSections
       /\ Script(s, "add_section", [DefaultIn EXCEPT !.secName = name])

AddSubsection(s) ==
  /\ OnPage(s, "create_quiz")
  /\ \E name \in {"", "Type"} :
       /\ name # "" => CountSubsections(DraftOf(s).sections) < MaxSubsections
       /\ Script(s, "add_subsection", [DefaultIn EXCEPT !.subName = name])

\* The inputs left unread by a run are fixed, so that one run is one transition.
AddQuestion(s) ==
  /\ OnPage(s, "create_quiz")
  /\ \E i \in 1..Len(DraftOf(s).sections) : \E j \in 1..Len(DraftOf(s).sections[i].subsections) :
     \E text \in Texts \cup {""}, embFails \in BOOLEAN, has \in BOOLEAN, queryFails \in BOOLEAN,
        near \in Neighbourhoods :
       /\ text # "" => CountQuestions(DraftOf(s).sections) < MaxQuestions
       /\ text = "" => ~embFails /\ has
       /\ (text = "" \/ ~has) => ~queryFails
       /\ (text = "" \/ ~has \/ queryFails \/ embFails) => near = <<>>
       /\ Script(s, "add_question",
                 [DefaultIn EXCEPT !.qSec = i, !.qSub = j, !.qText = text, !.embFails = embFails,
                                   !.hasIndex = has, !.near = near, !.queryFails = queryFails])

SaveQuiz(s) ==
  /\ OnPage(s, "create_quiz")
  /\ \E r \in CreateResponses : Script(s, "save_quiz", [DefaultIn EXCEPT !.resps = <<r>>])

CreateBack(s) == OnPage(s, "create_quiz") /\ Script(s, "create_back", DefaultIn)

AnalyzeSkin(s) ==
  /\ OnPage(s, "chatroom")
  /\ \E hasText \in BOOLEAN, hasImage \in BOOLEAN, r1 \in AnalyzeResponses, r2 \in RecResponses :
       /\ (~hasText /\ ~hasImage) => r1 = Exc
       /\ (r1 # AnalyzeOk) => r2 = Exc
       /\ Script(s, "analyze", [DefaultIn EXCEPT !.hasText = hasText, !.hasImage = hasImage,
                                                 !.resps = <<r1, r2, Exc>>, !.startIdx = 0])

ChatInsights(s) == OnPage(s, "chatroom") /\ Script(s, "chat_insights", DefaultIn)

ChatLogout(s) == OnPage(s, "chatroom") /\ Script(s, "chat_logout", DefaultIn)

SubmitAnswer(s) ==
  /\ OnPage(s, "quiz")
  /\ Has(ss[s], "current_question")
  /\ \E r1 \in FetchResponses, r2 \in SubmitResponses :
       /\ ~Truthy(fetch_next_question(r1).ret) => r2 = Exc
       /\ Script(s, "submit_answer", [DefaultIn EXCEPT !.resps = <<r1, r2>>])

InsightsLogout(s) == OnPage(s, "insights") /\ Script(s, "insights_logout", DefaultIn)

\* The Approve and Reject buttons, which exist for the estheticians not yet approved.
EsthButtons ==
  {b \in [press : {"esth_approve", "esth_reject"}, in : EsthInputs, e : 1..2, r : ApproveResponses] :
     LET list == list_estheticians(b.in.resps[1]).ret.l IN
     /\ b.e <= Len(list)
     /\ Get(list[b.e], "esthetician_status", "") # "approved"}

EsthDecide(s) ==
  /\ OnPage(s, "esthetician_management")
  /\ \E b \in EsthButtons :
       Script(s, b.press, [b.in EXCEPT !.resps = <<b.in.resps[1], b.r>>, !.qi = b.e])

EsthBack(s) ==
  /\ OnPage(s, "esthetician_management")
  /\ \E in \in EsthInputs : Script(s, "esth_back", in)

MgmtBack(s) ==
  /\ OnPage(s, "quiz_management")
  /\ \E in \in MgmtInputs : Script(s, "mgmt_back", in)

\* Whether the run with inputs in reaches the widgets of quiz qi.
Reaches(in, qi) ==
  LET items == get_all_quizzes(in.resps[1]).ret.l IN
  /\ qi <= Len(items)
  /\ "_id" \in DOMAIN items[qi].d
  /\ \A i \in 1..qi : "_id" \in DOMAIN items[i].d =>
        ~get_quiz_details(in.details[i]).raised /\ get_quiz_details(in.details[i]).ret # None

\* The buttons of the listed quizzes: Delete, Confirm Delete and Cancel of
\* question qj of quiz qi, and Save of quiz qi.
MgmtButtons ==
  {b \in [press : {"mgmt_delete", "mgmt_confirm", "mgmt_cancel", "mgmt_save"}, in : MgmtInputs,
          qi : 1..2, qj : 0..2, u : UpdateResponses] :
     /\ Reaches(b.in, b.qi)
     /\ b.qj < Len(Get(get_quiz_details(b.in.details[b.qi]).ret, "questions", List(<<>>)).l)
     /\ b.press = "mgmt_save" => b.qj = 0
     /\ b.press \in {"mgmt_delete", "mgmt_cancel"} => b.u = Exc}

\* Confirm Delete and Cancel exist while the confirmation of their question is pending.
MgmtButton(s) ==
  /\ OnPage(s, "quiz_management")
  /\ \E b \in MgmtButtons :
       /\ b.press \in {"mgmt_confirm", "mgmt_cancel"} =>
            /\ Has(ss[s], "delete_confirm")
            /\ ss[s]["delete_confirm"].quiz_id = get_all_quizzes(b.in.resps[1]).ret.l[b.qi].d["_id"]
            /\ ss[s]["delete_confirm"].question_idx = b.qj
       /\ Script(s, b.press, [b.in EXCEPT !.qi = b.qi, !.qj = b.qj, !.update = b.u])

StepMenu(s) ==
  \/ Rerun(s) \/ Navigate(s) \/ NavLogout(s) \/ Login(s) \/ AdminMenu(s) \/ AdminLogout(s)

StepDraft(s) ==
  \/ EditTitle(s) \/ AddSection(s) \/ AddSubsection(s) \/ AddQuestion(s) \/ SaveQuiz(s)
  \/ CreateBack(s)

StepUser(s) == AnalyzeSkin(s) \/ ChatInsights(s) \/ ChatLogout(s) \/ InsightsLogout(s)

\* The quiz page, which is rendered once a session names the page "quiz".
StepQuiz(s) == SubmitAnswer(s)

StepManage(s) ==
  \/ RerunManage(s) \/ NavigateManage(s) \/ EsthDecide(s) \/ EsthBack(s) \/ MgmtBack(s)
  \/ MgmtButton(s)

Step(s) == StepMenu(s) \/ StepDraft(s) \/ StepUser(s) \/ StepQuiz(s) \/ StepManage(s)

Next == Step("u1") \/ EndRun

Spec == Init /\ [][Next]_vars

\* ------------------------------------------------------------ the wrappers called directly
\* upload_puzzle and delete_quiz are called by no page; every wrapper is also
\* exercised by itself, on every response tried anywhere in the model.
Wrappers ==
  {"authenticate", "create_quiz", "get_all_quizzes", "get_quiz_details", "update_quiz",
   "delete_quiz", "upload_puzzle", "list_estheticians", "approve_esthetician",
   "analyze_skin_condition", "get_quiz_recommendations", "start_quiz", "fetch_next_question",
   "submit_quiz"}

Apply(fn, r) ==
  CASE fn = "authenticate" -> authenticate(r)
    [] fn = "create_quiz" -> create_quiz(r)
    [] fn = "get_all_quizzes" -> get_all_quizzes(r)
    [] fn = "get_quiz_details" -> get_quiz_details(r)
    [] fn = "update_quiz" -> update_quiz(r)
    [] fn = "delete_quiz" -> delete_quiz(r)
    [] fn = "upload_puzzle" -> upload_puzzle(r)
    [] fn = "list_estheticians" -> list_estheticians(r)
    [] fn = "approve_esthetician" -> approve_esthetician(r)
    [] fn = "analyze_skin_condition" -> analyze_skin_condition(r, FALSE)
    [] fn = "get_quiz_recommendations" -> get_quiz_recommendations(r)
    [] fn = "start_quiz" -> start_quiz(r)
    [] fn = "fetch_next_question" -> fetch_next_question(r)
    [] fn = "submit_quiz" -> submit_quiz(r)

WrapperResponses ==
  Failures \cup LoginResponses \cup CreateResponses \cup UpdateResponses \cup SubmitResponses
    \cup ApproveResponses \cup ListResponses \cup EsthListResponses \cup AnalyzeResponses
    \cup RecResponses \cup StartResponses \cup FetchResponses
    \cup {DetailsOk("quizA"), DetailsNoFlag("quizA"), Http(200, EmptyDict),
          Http(200, Dict([success |-> TRUE, puzzle |-> Dict([_id |-> "new"])]))}

\* One call of the wrapper fn from session s, whose request ends in r.
CallWrapper(s) ==
  \E fn \in Wrappers, r \in WrapperResponses :
    LET res == Apply(fn, r) IN
    /\ run = Idle
    /\ run' = [sess |-> s, press |-> "(call)", pre |-> ss[s],
               calls |-> <<Call(fn, r, res, Bearer(ss[s]), None)>>,
               errors |-> res.errors, raised |-> res.raised, add |-> None]
    /\ UNCHANGED <<ss, cache, screen, answered>>

\* ------------------------------------------------------------ specifications
\* The whole program is Spec.  The session keys of the pages multiply, so the
\* properties are checked on the parts of it: the menu with one group of pages.
\* The create-quiz page.
NextA == StepMenu("u1") \/ StepDraft("u1") \/ EndRun
SpecA == Init /\ [][NextA]_vars

\* The chatroom, quiz and insights pages.
NextU == StepMenu("u1") \/ StepUser("u1") \/ EndRun
SpecU == Init /\ [][NextU]_vars

\* The quiz and esthetician management pages.
NextM == StepMenu("u1") \/ StepManage("u1") \/ EndRun
SpecM == Init /\ [][NextM]_vars

\* Every wrapper by itself, from the sessions the menu leads to.
NextW == StepMenu("u1") \/ CallWrapper("u1") \/ EndRun
SpecW == Init /\ [][NextW]_vars

\* The quiz page.  A session names the page "quiz" when lines 499-501 have run:
\* quiz_id, page and current_question (what start_quiz returned, here the first
\* question of the quiz) are set, in the session of a logged-in user whose skin
\* was analysed.  The server hands the questions out in index order: the
\* question after the one answered, and nothing after the last.
InitQuiz ==
  /\ ss = [s \in Sessions |->
            IF s = "u1"
            THEN [page |-> "quiz", auth_token |-> "token", user_id |-> "user",
                  skin_type |-> "oily", condition |-> "acne",
                  skin_recommendations |-> List(<<"cleanse">>),
                  quiz_list |-> List(<<QuizStub("quizA")>>), quiz_id |-> "quizA",
                  current_question |-> QuestionDetails("quizA", 0)]
            ELSE NoKeys]
  /\ cache = NoKeys
  /\ run = Idle
  /\ screen = [s \in Sessions |-> IF s = "u1" THEN "chatroom" ELSE "(none)"]
  /\ answered = [s \in Sessions |-> {}]

ServedInOrder ==
  \A i \in DOMAIN run'.calls :
    (run'.calls[i].fn = "fetch_next_question" /\ ~Failed(run'.calls[i].resp)) =>
      Get(run'.calls[i].resp.body, "question_details", EmptyDict)
        = QuestionDetails(run'.pre["quiz_id"],
                          run'.pre["current_question"].d["current_question_index"] + 1)

StepQuizInOrder(s) == SubmitAnswer(s) /\ ServedInOrder

NextQ == StepMenu("u1") \/ StepQuizInOrder("u1") \/ EndRun
SpecQ == InitQuiz /\ [][NextQ]_vars

\* Two sessions of one server process, on the login and create-quiz pages, with
\* drafts of at most MaxShared sections, subsections and questions each.
SmallDraft(st) ==
  LET d == StGet(st, "new_quiz", EmptyDraft) IN
  /\ Len(d.sections) <= MaxShared
  /\ CountSubsections(d.sections) <= MaxShared
  /\ CountQuestions(d.sections) <= MaxShared
  /\ StGet(st, "page", "login") \in {"login", "admin", "create_quiz", "chatroom"}

StepShared(s) ==
  \/ Rerun(s) /\ SmallDraft(ss'[s])
  \/ Login(s) /\ SmallDraft(ss'[s])
  \/ Navigate(s) /\ SmallDraft(ss'[s])
  \/ NavLogout(s) /\ SmallDraft(ss'[s])
  \/ AddSection(s) /\ SmallDraft(ss'[s])
  \/ AddSubsection(s) /\ SmallDraft(ss'[s])
  \/ AddQuestion(s) /\ SmallDraft(ss'[s])

NextTwo == (\E s \in Sessions : StepShared(s)) \/ EndRun
SpecTwo == Init /\ [][NextTwo]_vars

\* ------------------------------------------------------------ properties of the create-quiz page
\* The last run was a pressed Add Question button with a text typed in.
AddRun == run.press = "add_question" /\ run.add.asked
DraftBefore == run.pre["new_quiz"]
DraftAfter == ss[run.sess]["new_quiz"]

\* post is pre with text appended once to the questions of subsection (i, j),
\* every title, name and other question list being the same.
AppendedOnlyAt(pre, post, i, j, text) ==
  /\ post.quiz_title = pre.quiz_title
  /\ Len(post.sections) = Len(pre.sections)
  /\ \A a \in 1..Len(pre.sections) :
       /\ post.sections[a].section_name = pre.sections[a].section_name
       /\ Len(post.sections[a].subsections) = Len(pre.sections[a].subsections)
       /\ \A b \in 1..Len(pre.sections[a].subsections) :
            /\ post.sections[a].subsections[b].subsection_name
                 = pre.sections[a].subsections[b].subsection_name
            /\ post.sections[a].subsections[b].questions
                 = IF a = i /\ b = j
                   THEN pre.sections[a].subsections[b].questions \o <<text>>
                   ELSE pre.sections[a].subsections[b].questions

\* C1: when Add Question is pressed with a non-empty text and check_similarity
\* reports a similar question, the new_quiz draft of the session is left as it
\* was; the draft changes only when none is reported, and then by the text
\* appended once, to the questions of that subsection only.
C1_SimilarQuestionNotAdded ==
  AddRun =>
    /\ Truthy(run.add.q) => DraftAfter = DraftBefore
    /\ DraftAfter # DraftBefore =>
         /\ run.add.q = None
         /\ AppendedOnlyAt(DraftBefore, DraftAfter, run.add.sec, run.add.sub, run.add.text)

\* A similar question was reported for a text added to a draft that holds a question.
C1_Witness ==
  /\ AddRun
  /\ Truthy(run.add.q)
  /\ run.add.score.n > Threshold
  /\ CountQuestions(DraftBefore.sections) >= 1

\* C2: a question text appended to the draft was preceded, in the same run, by
\* an embedding that was generated and a nearest-neighbour query of the index
\* that succeeded; no text is appended when the embedding is unavailable, the
\* index is unavailable or the query fails.
C2_AddedOnlyAfterCheck ==
  (AddRun /\ DraftAfter # DraftBefore) =>
    /\ run.add.embedding # None
    /\ run.add.hasIndex
    /\ run.add.queries = 1
    /\ ~run.add.queryFails

\* C3 as stated: check_similarity issues exactly one top-1 query on every call.
C3_ExactlyOneQuery == AddRun => run.add.queries = 1 /\ run.add.topk = 1

\* The call of check_similarity in the last run found a match above the threshold.
Matched ==
  /\ run.add.hasIndex
  /\ ~run.add.queryFails
  /\ run.add.embedding # None
  /\ Len(run.add.near) >= 1
  /\ run.add.near[1].score > Threshold

\* C3, amended: check_similarity issues one top-1 query when the index is
\* available and none when it is not; it returns the text and score of the best
\* match if and only if the query gave a match whose score is above 0.6, and
\* (None, None) in every other case; it never raises.
C3_OneQueryWhenIndexed ==
  AddRun =>
    /\ run.add.queries = (IF run.add.hasIndex THEN 1 ELSE 0)
    /\ run.add.queries = 1 => run.add.topk = 1
    /\ ~run.add.raised
    /\ Matched => /\ run.add.q = Str(run.add.near[1].question)
                  /\ run.add.score = Num(run.add.near[1].score)
    /\ ~Matched => run.add.q = None /\ run.add.score = None

\* The best match scored exactly the threshold and nothing was reported.
C3_Witness ==
  /\ AddRun
  /\ run.add.hasIndex /\ ~run.add.queryFails /\ run.add.embedding # None
  /\ Len(run.add.near) >= 1
  /\ run.add.near[1].score = Threshold
  /\ run.add.q = None

\* ------------------------------------------------------------ properties of the remote calls
\* The wrapper calls of the last run whose request failed.
FailedCalls == {i \in DOMAIN run.calls : Failed(run.calls[i].resp)}

\* C4: whether the request of a wrapper fails by a transport exception or by a
\* status other than success, no exception leaves the wrapper.
C4_FailuresCaught == \A i \in FailedCalls : ~run.calls[i].raised

\* C5: when the request of a wrapper failed in a run (that no exception ended),
\* at least one st.error message was shown in that run.
C5_FailuresSurfaced == (FailedCalls # {} /\ ~run.raised) => run.errors >= 1

\* C6: one call of a wrapper issues exactly one HTTP request, whether the
\* request succeeds or fails.
C6_OneRequestPerCall == \A i \in DOMAIN run.calls : run.calls[i].requests = 1

\* A wrapper was called, its request failed, and one request was issued.
C6_Witness ==
  \E i \in FailedCalls :
    /\ run.calls[i].fn \in {"authenticate", "create_quiz"}
    /\ run.calls[i].requests = 1
    /\ run.calls[i].ret = None

\* C10: a details request that fails makes get_quiz_details return the empty
\* mapping (not None, and no exception), and no run of the quiz management page
\* ends in an exception.
C10_DetailsEmptyOnFailure ==
  /\ \A i \in FailedCalls :
       run.calls[i].fn = "get_quiz_details" => run.calls[i].ret = EmptyDict /\ ~run.calls[i].raised
  /\ (run # Idle /\ Dispatched(run.pre, run.press) = "quiz_management") => ~run.raised

\* ------------------------------------------------------------ properties of login and logout
LogoutPresses == {"admin_logout", "nav_logout", "chat_logout", "insights_logout"}

\* C8: after a pressed logout control the session holds the one variable page,
\* which is "login"; and a request of a session that holds no auth_token (as
\* after a logout, until a login succeeds) carries the empty bearer token.
C8_LogoutClearsSession ==
  /\ run.press \in LogoutPresses =>
       /\ DOMAIN ss[run.sess] = {"page"}
       /\ ss[run.sess]["page"] = "login"
       /\ Bearer(ss[run.sess]) = ""
  /\ (run # Idle /\ ~Has(run.pre, "auth_token")) =>
       \A i \in DOMAIN run.calls : run.calls[i].bearer \in {"", NoAuthHeader}

\* The chatroom Logout was pressed by a logged-in user whose skin was analysed.
C8_Witness ==
  /\ run.press = "chat_logout"
  /\ {"auth_token", "user_id", "skin_type", "quiz_list"} \subseteq DOMAIN run.pre
  /\ DOMAIN ss[run.sess] = {"page"}

\* What authenticate returned in a run of the Login button, and whether its
\* success flag is true.
LoginReturned == run.calls[1].ret
LoginSucceeded == LoginReturned # None /\ Flag(LoginReturned, "success")

\* C9: a pressed Login stores auth_token and user_id and leaves the login page
\* if and only if authenticate returned a response whose success flag is true;
\* page is then "admin" when the role is "admin" and "chatroom" otherwise, and
\* when authentication failed the session state is what it was.
C9_LoginOutcome ==
  run.press = "login" =>
    LET post == ss[run.sess] IN
    /\ LoginSucceeded <=> ({"auth_token", "user_id"} \subseteq DOMAIN post /\ post["page"] # "login")
    /\ LoginSucceeded =>
         /\ post["auth_token"] = LoginReturned.d["access_token"]
         /\ post["user_id"] = LoginReturned.d["user_id"]
         /\ post["page"] = (IF LoginReturned.d["role"] = "admin" THEN "admin" ELSE "chatroom")
         /\ DOMAIN post = DOMAIN run.pre \cup {"auth_token", "user_id"}
    /\ ~LoginSucceeded => post = run.pre /\ post["page"] = "login"

\* The server answered a login with success false and the session kept its state.
C9_Witness ==
  /\ run.press = "login"
  /\ ~Failed(run.calls[1].resp)
  /\ ~LoginSucceeded
  /\ ss[run.sess] = run.pre

RECURSIVE QuestionsOf(_)
QuestionsOf(subsections) ==
  IF subsections = <<>> THEN {}
  ELSE {subsections[1].questions[k] : k \in DOMAIN subsections[1].questions}
         \cup QuestionsOf(Tail(subsections))
DraftQuestions(s) ==
  UNION {QuestionsOf(DraftOf(s).sections[a].subsections) : a \in DOMAIN DraftOf(s).sections}

SubmitCalls == {i \in DOMAIN run.calls : run.calls[i].fn = "submit_quiz"}

CreateCalls == {i \in DOMAIN run.calls : run.calls[i].fn = "create_quiz"}
ReportedSuccess(r) ==
  /\ ~r.exc
  /\ r.status < 400
  /\ r.body # NotJson
  /\ Flag(r.body, "success")

\* C12: Save Quiz removes the new_quiz draft from the session if and only if
\* the remote create call reported success; on every failure the draft stays
\* in the session unchanged, and after a success response it is never left there.
C12_DraftRemovedIffSuccess ==
  \A i \in CreateCalls :
    IF ReportedSuccess(run.calls[i].resp)
    THEN ~Has(ss[run.sess], "new_quiz")
    ELSE Has(ss[run.sess], "new_quiz") /\ ss[run.sess]["new_quiz"] = StGet(run.pre, "new_quiz", EmptyDraft)

\* ------------------------------------------------------------ properties of Save
\* The update_quiz calls of a run of the Save button.
SaveCalls ==
  {i \in DOMAIN run.calls : run.press = "mgmt_save" /\ run.calls[i].fn = "update_quiz"}

\* The questions get_quiz_details returned for quiz id in the last run.
ListedQuestions(id) ==
  LET d == CHOOSE j \in DOMAIN run.calls :
             run.calls[j].fn = "get_quiz_details" /\ run.calls[j].payload.quiz_id = id
  IN Get(run.calls[d].ret, "questions", List(<<>>)).l

\* The question indices of quiz id whose deletion waited for confirmation when
\* the run began.
PendingOf(id) ==
  IF Has(run.pre, "delete_confirm") /\ run.pre["delete_confirm"].quiz_id = id
  THEN {run.pre["delete_confirm"].question_idx}
  ELSE {}

\* seq without its elements at the 0-based indices in K, in order.
RECURSIVE Without(_, _)
Without(seq, K) ==
  IF K = {} THEN seq
  ELSE LET k == CHOOSE x \in K : \A y \in K : y <= x
       IN Without(PopAt(seq, k), K \ {k})

\* C13: the payload Save sends for a quiz holds, in order, every question of
\* that quiz except one of that same quiz whose deletion is pending; a
\* confirmation pending for a question of another quiz removes nothing from it.
C13_SavePayloadComplete ==
  \A i \in SaveCalls :
    run.calls[i].payload.questions
      = Without(ListedQuestions(run.calls[i].payload.quiz_id), PendingOf(run.calls[i].payload.quiz_id))

====
